---- MODULE Spec2Model ----
(***************************************************************************)
(* A model of cgol (src/src/main.rs): Conway's Game of Life drawn into an  *)
(* RGBA8 pixel buffer by a worker thread, beside a passive foreground      *)
(* event loop.                                                             *)
(*                                                                         *)
(* The window of the program is 800 x 640 pixels with cells of 16 pixels:  *)
(* a grid of 50 x 40 cells.  The model keeps every formula of the source   *)
(* and scales the three sizes down: CellsAcross x CellsDown cells of       *)
(* PIXELS_PER_CELL pixels each.                                            *)
(***************************************************************************)
EXTENDS Integers, Sequences, FiniteSets

\* ------------------------------------------------------------------ sizes

\* Bound: the side of a cell in pixels (16 in the source, line 12).
PIXELS_PER_CELL == 2

\* Bounds: the window measured in cells (50 and 40 in the source).
CellsAcross == 3
CellsDown == 2

\* Bound: the frame counter `presented` saturates here.
MaxFrames == 3

\* Bounds: the grids the transition and alive_neighbors are applied to on
\* their own.
LifeCols == 3
LifeRows == 3

\* Bounds: the buffer fill_rect is applied to on its own, in pixels.
FillWidth == 3
FillHeight == 3

\* Bounds: the grids random_configuration is applied to on its own.
RandCols == 2
RandRows == 2

WINDOW_WIDTH == CellsAcross * PIXELS_PER_CELL
WINDOW_HEIGHT == CellsDown * PIXELS_PER_CELL

pixel_buffer_width == WINDOW_WIDTH
pixel_buffer_height == WINDOW_HEIGHT

grid_width == pixel_buffer_width \div PIXELS_PER_CELL

\* A faulty variant of grid_height: the rows are computed from the width.
grid_height_FromWidth == pixel_buffer_width \div PIXELS_PER_CELL

grid_height == pixel_buffer_height \div PIXELS_PER_CELL

\* The startup assertions on the window's size.
SizeAsserts ==
    /\ WINDOW_WIDTH % PIXELS_PER_CELL = 0
    /\ WINDOW_HEIGHT % PIXELS_PER_CELL = 0

\* ----------------------------------------------------------------- colours

BLACK == <<0, 0, 0>>
WHITE == <<255, 255, 255>>

\* Rgb::random() draws each channel from 0..=255; the model draws the whole
\* colour from this palette. No step of the program reads a colour back, so
\* the palette only decides which frames the random mode can show.
RandomColors == {<<17, 34, 51>>}

ColorModes == {"monochrome", "random"}

\* The colours color_gen() may return in a colour mode.
color_gen(mode) == IF mode = "monochrome" THEN {WHITE} ELSE RandomColors

\* -------------------------------------------------------------- the buffer

\* Pixels::new: a zeroed buffer of width * height * 4 bytes.
NewFrame(w, h) == [i \in 0..(w * h * 4 - 1) |-> 0]

\* let idx = (y * buffer_width + x) * 4;
PixelIdx(buffer_width, x, y) == (y * buffer_width + x) * 4

\* A faulty variant of FillRectCells: both ranges include their end (..= for ..).
FillRectCells_Inclusive(cx, cy, w, h) ==
    (cy..(cy + h)) \X (cx..(cx + w))

\* The pixels <<y, x>> the two loops of fill_rect visit, in the order of
\* the pairs: for y in coords.y..coords.y + h, for x in coords.x..coords.x + w.
FillRectCells(cx, cy, w, h) ==
    (cy..(cy + h - 1)) \X (cx..(cx + w - 1))

\* The visited pixels whose store frame[idx + 0] is out of range: Rust
\* panics at the first of them.
FillRectBad(frame, buffer_width, cx, cy, w, h) ==
    {c \in FillRectCells(cx, cy, w, h) :
        PixelIdx(buffer_width, c[2], c[1]) \notin DOMAIN frame}

FillRectPanics(frame, buffer_width, cx, cy, w, h) ==
    FillRectBad(frame, buffer_width, cx, cy, w, h) # {}

VisitedBefore(c, d) == c[1] < d[1] \/ (c[1] = d[1] /\ c[2] < d[2])

\* The pixels fill_rect stores to: all it visits, or those before the panic.
FillRectDone(frame, buffer_width, cx, cy, w, h) ==
    LET bad == FillRectBad(frame, buffer_width, cx, cy, w, h)
    IN  IF bad = {} THEN FillRectCells(cx, cy, w, h)
        ELSE {c \in FillRectCells(cx, cy, w, h) :
                \A d \in bad : VisitedBefore(c, d)}

\* The byte indices fill_rect stores to: idx + 0 .. idx + 3 of each pixel.
FillRectIdx(frame, buffer_width, cx, cy, w, h) ==
    {PixelIdx(buffer_width, c[2], c[1]) + k :
        c \in FillRectDone(frame, buffer_width, cx, cy, w, h), k \in 0..3}

\* The byte stored at idx + k: rgb.0, rgb.1, rgb.2, 0xFF.
ChannelByte(rgb, k) == IF k = 3 THEN 255 ELSE rgb[k + 1]

\* The frame after fill_rect (after its panic, when it panics). Every idx is
\* a multiple of 4 and every store of one call stores the same colour, so
\* the byte at index i is ChannelByte(rgb, i % 4) whichever pixel wrote it.
fill_rect(frame, buffer_width, cx, cy, w, h, rgb) ==
    LET written == FillRectIdx(frame, buffer_width, cx, cy, w, h)
    IN  [i \in DOMAIN frame |->
            IF i \in written THEN ChannelByte(rgb, i % 4) ELSE frame[i]]

\* A faulty variant of pixel_coords: the cell's coordinates are not scaled.
pixel_coords_Unscaled(x, y) == [x |-> x, y |-> y]

\* let pixel_coords = PixelCoords { x: coords.x * PIXELS_PER_CELL, .. };
pixel_coords(x, y) == [x |-> x * PIXELS_PER_CELL, y |-> y * PIXELS_PER_CELL]

fill_cell(frame, buffer_width, x, y, rgb) ==
    fill_rect(frame, buffer_width, pixel_coords(x, y).x, pixel_coords(x, y).y,
              PIXELS_PER_CELL, PIXELS_PER_CELL, rgb)

\* The byte indices fill_cell stores to, and whether one of its stores is
\* out of range.
FillCellIdx(frame, buffer_width, x, y) ==
    FillRectIdx(frame, buffer_width, pixel_coords(x, y).x, pixel_coords(x, y).y,
                PIXELS_PER_CELL, PIXELS_PER_CELL)

FillCellPanics(frame, buffer_width, x, y) ==
    FillRectPanics(frame, buffer_width, pixel_coords(x, y).x, pixel_coords(x, y).y,
                   PIXELS_PER_CELL, PIXELS_PER_CELL)

\* A faulty variant of ClearFrame: the buffer is not cleared before the draw.
ClearFrame_Skipped(frame) == frame

\* Clear the screen with black.
ClearFrame(frame) ==
    fill_rect(frame, pixel_buffer_width, 0, 0,
              pixel_buffer_width, pixel_buffer_height, BLACK)

\* ---------------------------------------------------------------- the grid

\* vec![vec![false; grid_width]; grid_height]
EmptyGrid(w, h) == [y \in 0..(h - 1) |-> [x \in 0..(w - 1) |-> FALSE]]

\* The grids random_configuration can leave.
AllGrids(w, h) == [0..(h - 1) -> [0..(w - 1) -> BOOLEAN]]

\* A faulty variant of OFFSETS: the last offset is the cell itself.
OFFSETS_WithSelf ==
    << <<-1, -1>>, <<0, -1>>, <<1, -1>>, <<1, 0>>,
       <<1, 1>>, <<0, 1>>, <<-1, 1>>, <<0, 0>> >>

OFFSETS ==
    << <<-1, -1>>, <<0, -1>>, <<1, -1>>, <<1, 0>>,
       <<1, 1>>, <<0, 1>>, <<-1, 1>>, <<-1, 0>> >>

\* grid[0].len() and grid.len()
GridWidthOf(grid) == Cardinality(DOMAIN grid[0])
GridHeightOf(grid) == Cardinality(DOMAIN grid)

\* A faulty variant of OffsetInRange: the upper guards compare with > for >=.
OffsetInRange_OffByOne(grid, x, y, i) ==
    LET nx == x + OFFSETS[i][1]
        ny == y + OFFSETS[i][2]
    IN  /\ nx >= 0
        /\ ny >= 0
        /\ ~(nx > GridWidthOf(grid) \/ ny > GridHeightOf(grid))

\* The guards of one iteration of alive_neighbors: both try_from succeed
\* (the sums are not negative) and the position is not at or beyond the
\* grid's width and height.
OffsetInRange(grid, x, y, i) ==
    LET nx == x + OFFSETS[i][1]
        ny == y + OFFSETS[i][2]
    IN  /\ nx >= 0
        /\ ny >= 0
        /\ ~(nx >= GridWidthOf(grid) \/ ny >= GridHeightOf(grid))

\* The positions <<x, y>> at which alive_neighbors reads grid[y][x].
NeighborReads(grid, x, y) ==
    {<<x + OFFSETS[i][1], y + OFFSETS[i][2]>> :
        i \in {j \in 1..Len(OFFSETS) : OffsetInRange(grid, x, y, j)}}

\* grid[y][x] is an index in range.
Indexable(grid, x, y) == y \in DOMAIN grid /\ x \in DOMAIN grid[y]

\* One iteration of `for offset in OFFSETS`: the count after offset i. A
\* read out of range is a panic, shown as the count -1.
NeighborStep(grid, x, y, i, alive) ==
    IF ~OffsetInRange(grid, x, y, i) THEN alive
    ELSE IF ~Indexable(grid, x + OFFSETS[i][1], y + OFFSETS[i][2]) THEN -1
    ELSE IF grid[y + OFFSETS[i][2]][x + OFFSETS[i][1]] THEN alive + 1
    ELSE alive

\* let mut alive = 0; the loop over OFFSETS in their order; alive
alive_neighbors(grid, x, y) ==
    LET loop[st \in [i : 1..(Len(OFFSETS) + 1), alive : -1..Len(OFFSETS)]] ==
            IF st.i > Len(OFFSETS) \/ st.alive = -1 THEN st.alive
            ELSE loop[[i |-> st.i + 1,
                       alive |-> NeighborStep(grid, x, y, st.i, st.alive)]]
    IN  loop[[i |-> 1, alive |-> 0]]

\* A faulty variant of LifeRule: a live cell survives on 2 neighbours only.
LifeRule_SurvivesOnTwoOnly(alive, n) == (alive /\ n = 2) \/ (~alive /\ n = 3)

\* A faulty variant of LifeRule: 2 or 3 neighbours make a cell alive, dead or not.
LifeRule_IgnoresAlive(alive, n) == n \in 2..3

\* match (alive, alive_neighbors) { (true, 2..=3) | (false, 3) => true }
LifeRule(alive, n) == (alive /\ n \in 2..3) \/ (~alive /\ n = 3)

\* A faulty variant of CountedGrid: the neighbours are counted on the grid that is
\* being filled.
CountedGrid_NextGrid(grid, next_grid) == next_grid

\* The grid the neighbours of a cell are counted on while next_grid is
\* being filled: alive_neighbors(&grid, ..).
CountedGrid(grid, next_grid) == grid

\* A faulty variant of Counted: the count looks at the cell's next state.
Counted_NextState(alive, next_alive) == next_alive

\* if alive { alive_count += 1; }: what the count looks at, of the cell's
\* current state and the state just computed for it.
Counted(alive, next_alive) == alive

\* One iteration of the tick's double loop, at the cell number st.i in
\* row-major order of a grid gw cells wide.
TickCell(grid, gw, st) ==
    LET y == st.i \div gw
        x == st.i % gw
        alive == grid[y][x]
        n == alive_neighbors(CountedGrid(grid, st.next_grid), x, y)
        next_alive == LifeRule(alive, n)
    IN  [i |-> st.i + 1,
         next_grid |-> IF next_alive
                       THEN [st.next_grid EXCEPT ![y][x] = TRUE]
                       ELSE st.next_grid,
         alive_count |-> IF Counted(alive, next_alive)
                         THEN st.alive_count + 1
                         ELSE st.alive_count]

\* A faulty variant of TickStart: next_grid starts as a copy of the grid.
TickStart_FromCopy(grid, gw, gh) ==
    [i |-> 0, next_grid |-> grid, alive_count |-> 0]

\* let mut alive_count = 0; let mut next_grid = vec![vec![false; ..]; ..];
TickStart(grid, gw, gh) ==
    [i |-> 0, next_grid |-> EmptyGrid(gw, gh), alive_count |-> 0]

\* The tick's double loop, gw and gh the captured grid_width and
\* grid_height: next_grid and alive_count when it ends.
Tick(grid, gw, gh) ==
    LET loop[st \in [i : 0..(gw * gh), next_grid : AllGrids(gw, gh),
                     alive_count : 0..(gw * gh)]] ==
            IF st.i = gw * gh
            THEN [next_grid |-> st.next_grid, alive_count |-> st.alive_count]
            ELSE loop[TickCell(grid, gw, st)]
    IN  loop[TickStart(grid, gw, gh)]

\* A faulty variant of DrawCell: the dead cells are drawn, not the live ones.
DrawCell_DrawsDead(grid, mode, st) ==
    LET y == st.i \div grid_width
        x == st.i % grid_width
    IN  [i |-> st.i + 1,
         frames |-> IF ~grid[y][x]
                    THEN {fill_cell(f, pixel_buffer_width, x, y, c) :
                              f \in st.frames, c \in color_gen(mode)}
                    ELSE st.frames]

\* One iteration of the draw loop, at the cell number st.i in row-major
\* order: every frame it can leave, one per colour color_gen() can return
\* if the cell is alive.
DrawCell(grid, mode, st) ==
    LET y == st.i \div grid_width
        x == st.i % grid_width
    IN  [i |-> st.i + 1,
         frames |-> IF grid[y][x]
                    THEN {fill_cell(f, pixel_buffer_width, x, y, c) :
                              f \in st.frames, c \in color_gen(mode)}
                    ELSE st.frames]

\* The draw loop: every frame it can end with.
DrawLoop(frame, grid, mode) ==
    LET loop[st \in [i : 0..(grid_width * grid_height),
                     frames : SUBSET [DOMAIN frame -> 0..255]]] ==
            IF st.i = grid_width * grid_height THEN st.frames
            ELSE loop[DrawCell(grid, mode, st)]
    IN  loop[[i |-> 0, frames |-> {frame}]]

\* ---------------------------------------------------------------- the state

VARIABLES
    grid,         \* the current generation (owned by the worker)
    frame,        \* the bytes of the pixel buffer
    next_grid,    \* the tick's next_grid
    alive_count,  \* the tick's alive_count
    color_mode,   \* args.color_mode
    pc,           \* the worker's position in its loop
    process,      \* "running", or "exited" after std::process::exit
    exit_code,    \* the code given to std::process::exit, -1 before
    presented,    \* frames presented so far, saturating at MaxFrames
    call,         \* the last call of a function applied on its own
    tick_steps,   \* the statements of the current tick that have run, in order
    users,        \* the tasks that have accessed the grid and the buffer
    replaced      \* grid replacements so far, saturating at MaxFrames

vars == <<grid, frame, next_grid, alive_count, color_mode, pc, process,
          exit_code, presented, call, tick_steps, users, replaced>>

NoCall == [op |-> "none"]

\* Before the worker is spawned nothing has accessed the grid or the buffer.
NoUsers == [grid |-> {}, frame |-> {}]

\* The users after a step of `task` that reads or writes `resources`.
Access(task, resources) ==
    [r \in DOMAIN users |->
        IF r \in resources THEN users[r] \cup {task} ELSE users[r]]

Saturate(n) == IF n >= MaxFrames THEN MaxFrames ELSE n

\* main up to the spawn of the worker: the grid after random_configuration,
\* a zeroed buffer, the colour mode of the command line.
Init ==
    /\ SizeAsserts
    /\ grid \in AllGrids(grid_width, grid_height)
    /\ frame = NewFrame(pixel_buffer_width, pixel_buffer_height)
    /\ next_grid = EmptyGrid(grid_width, grid_height)
    /\ alive_count = 0
    /\ color_mode \in ColorModes
    /\ pc = "frame_mut"
    /\ process = "running"
    /\ exit_code = -1
    /\ presented = 0
    /\ call = NoCall
    /\ tick_steps = <<>>
    /\ users = NoUsers
    /\ replaced = 0

\* A faulty variant of FrameMut: the worker goes on after the exit.
FrameMut_Unguarded ==
    /\ pc \in {"frame_mut", "exit"}
    /\ pc' = "clear"
    /\ tick_steps' = <<"frame_mut">>
    /\ users' = Access("worker", {"frame"})
    /\ UNCHANGED <<grid, frame, next_grid, alive_count, color_mode, process,
                   exit_code, presented, call, replaced>>

\* let frame = pixels.frame_mut();
FrameMut ==
    /\ process = "running" /\ pc = "frame_mut"
    /\ pc' = "clear"
    /\ tick_steps' = <<"frame_mut">>
    /\ users' = Access("worker", {"frame"})
    /\ UNCHANGED <<grid, frame, next_grid, alive_count, color_mode, process,
                   exit_code, presented, call, replaced>>

\* Clear the screen with black.
ClearScreen ==
    /\ process = "running" /\ pc = "clear"
    /\ frame' = ClearFrame(frame)
    /\ pc' = "draw"
    /\ tick_steps' = Append(tick_steps, "clear")
    /\ users' = Access("worker", {"frame"})
    /\ UNCHANGED <<grid, next_grid, alive_count, color_mode, process,
                   exit_code, presented, call, replaced>>

\* Draw the current state of the grid.
DrawGrid ==
    /\ process = "running" /\ pc = "draw"
    /\ frame' \in DrawLoop(frame, grid, color_mode)
    /\ pc' = "render"
    /\ tick_steps' = Append(tick_steps, "draw")
    /\ users' = Access("worker", {"grid", "frame"})
    /\ UNCHANGED <<grid, next_grid, alive_count, color_mode, process,
                   exit_code, presented, call, replaced>>

\* pixels.render() returns Ok: the frame is on the screen.
RenderOk ==
    /\ process = "running" /\ pc = "render"
    /\ presented' = Saturate(presented + 1)
    /\ pc' = "tick"
    /\ tick_steps' = Append(tick_steps, "render")
    /\ users' = Access("worker", {"frame"})
    /\ UNCHANGED <<grid, frame, next_grid, alive_count, color_mode, process,
                   exit_code, call, replaced>>

\* pixels.render() returns Err: unwrap() panics in the spawned thread. The
\* panic unwinds the worker alone; main stays in event_loop.run.
RenderErr ==
    /\ process = "running" /\ pc = "render"
    /\ pc' = "panicked"
    /\ users' = Access("worker", {"frame"})
    /\ UNCHANGED <<grid, frame, next_grid, alive_count, color_mode, process,
                   exit_code, presented, call, tick_steps, replaced>>

\* The double loop that fills next_grid and counts the live cells.
TickGame ==
    /\ process = "running" /\ pc = "tick"
    /\ LET r == Tick(grid, grid_width, grid_height)
       IN  /\ next_grid' = r.next_grid
           /\ alive_count' = r.alive_count
    /\ pc' = "check"
    /\ tick_steps' = Append(tick_steps, "tick")
    /\ users' = Access("worker", {"grid"})
    /\ UNCHANGED <<grid, frame, color_mode, process, exit_code, presented, call,
                   replaced>>

\* A faulty variant of Extinct: the loop also exits on a single live cell.
Extinct_AtMostOne(count) == count <= 1

\* if alive_count == 0
Extinct(count) == count = 0

\* if alive_count == 0 { std::process::exit(0); }
CheckAlive ==
    /\ process = "running" /\ pc = "check"
    /\ IF Extinct(alive_count)
       THEN /\ process' = "exited"
            /\ exit_code' = 0
            /\ pc' = "exit"
       ELSE /\ pc' = "replace"
            /\ UNCHANGED <<process, exit_code>>
    /\ tick_steps' = Append(tick_steps, "check")
    /\ UNCHANGED <<grid, frame, next_grid, alive_count, color_mode, presented,
                   call, users, replaced>>

\* A faulty variant of ReplaceGrid: the loop starts over without the sleep.
ReplaceGrid_NoSleep ==
    /\ process = "running" /\ pc = "replace"
    /\ grid' = next_grid
    /\ next_grid' = EmptyGrid(grid_width, grid_height)
    /\ alive_count' = 0
    /\ pc' = "frame_mut"
    /\ tick_steps' = Append(tick_steps, "replace")
    /\ users' = Access("worker", {"grid"})
    /\ replaced' = Saturate(replaced + 1)
    /\ UNCHANGED <<frame, color_mode, process, exit_code, presented, call>>

\* grid = next_grid; the tick's locals end with the iteration.
ReplaceGrid ==
    /\ process = "running" /\ pc = "replace"
    /\ grid' = next_grid
    /\ next_grid' = EmptyGrid(grid_width, grid_height)
    /\ alive_count' = 0
    /\ pc' = "sleep"
    /\ tick_steps' = Append(tick_steps, "replace")
    /\ users' = Access("worker", {"grid"})
    /\ replaced' = Saturate(replaced + 1)
    /\ UNCHANGED <<frame, color_mode, process, exit_code, presented, call>>

\* std::thread::sleep(sleep_duration); then the loop starts over.
Sleep ==
    /\ process = "running" /\ pc = "sleep"
    /\ pc' = "frame_mut"
    /\ tick_steps' = Append(tick_steps, "sleep")
    /\ UNCHANGED <<grid, frame, next_grid, alive_count, color_mode, process,
                   exit_code, presented, call, users, replaced>>

\* A faulty variant of HandleEvent: the closure ends the process on an event.
HandleEvent_CloseExits ==
    /\ process = "running"
    /\ process' = "exited"
    /\ exit_code' = 0
    /\ UNCHANGED <<grid, frame, next_grid, alive_count, color_mode, pc,
                   presented, call, tick_steps, users, replaced>>

\* A faulty variant of HandleEvent: the closure redraws the buffer on an event.
HandleEvent_Redraws ==
    /\ process = "running"
    /\ users' = Access("foreground", {"frame"})
    /\ UNCHANGED <<grid, frame, next_grid, alive_count, color_mode, pc, process,
                   exit_code, presented, call, tick_steps, replaced>>

\* event_loop.run(|_, _, _| {}): the foreground handles an event with an
\* empty closure, which accesses nothing.
HandleEvent ==
    /\ process = "running"
    /\ UNCHANGED vars

Worker ==
    \/ FrameMut
    \/ ClearScreen
    \/ DrawGrid
    \/ RenderOk
    \/ RenderErr
    \/ TickGame
    \/ CheckAlive
    \/ ReplaceGrid
    \/ Sleep

Next == Worker \/ HandleEvent

Spec == Init /\ [][Next]_vars

\* The worker is a thread of its own: the scheduler runs it whenever it can
\* take a step.
FairSpec == Spec /\ WF_vars(Worker)

\* The program started on a grid with exactly one live cell.
LiveCells(g) ==
    {p \in (0..(GridWidthOf(g) - 1)) \X (0..(GridHeightOf(g) - 1)) : g[p[2]][p[1]]}

InitOneCell == Init /\ Cardinality(LiveCells(grid)) = 1

SpecOneCell == InitOneCell /\ [][Next]_vars /\ WF_vars(Worker)

\* The 2 x 2 square of cells with <<x, y>> in its upper left corner.
Block(x, y) == {<<x, y>>, <<x + 1, y>>, <<x, y + 1>>, <<x + 1, y + 1>>}

\* The program started on a grid whose live cells are one 2 x 2 block.
InitBlock ==
    /\ Init
    /\ \E x \in 0..(grid_width - 2), y \in 0..(grid_height - 2) :
            LiveCells(grid) = Block(x, y)

SpecBlock == InitBlock /\ [][Next]_vars /\ WF_vars(Worker)

\* ------------------------------------------- the transition applied on its own

\* A grid of LifeCols x LifeRows cells, to which the tick's transition is
\* applied once and once more (SpecLife), or alive_neighbors at every cell
\* (SpecNeighbors).
InitLife ==
    /\ grid \in AllGrids(LifeCols, LifeRows)
    /\ frame = <<>>
    /\ next_grid = EmptyGrid(LifeCols, LifeRows)
    /\ alive_count = 0
    /\ color_mode = "monochrome"
    /\ pc = "life"
    /\ process = "running"
    /\ exit_code = -1
    /\ presented = 0
    /\ call = NoCall
    /\ tick_steps = <<>>
    /\ users = NoUsers
    /\ replaced = 0

\* next_grid is the generation after grid.
LifeTick ==
    /\ pc = "life"
    /\ LET r == Tick(grid, LifeCols, LifeRows)
       IN  /\ next_grid' = r.next_grid
           /\ alive_count' = r.alive_count
    /\ pc' = "life_once"
    /\ call' = [op |-> "tick"]
    /\ UNCHANGED <<grid, frame, color_mode, process, exit_code, presented,
                   tick_steps, users, replaced>>

\* next_grid is the second generation after grid.
LifeTickAgain ==
    /\ pc = "life_once"
    /\ LET r == Tick(next_grid, LifeCols, LifeRows)
       IN  /\ next_grid' = r.next_grid
           /\ alive_count' = r.alive_count
    /\ pc' = "life_twice"
    /\ UNCHANGED <<grid, frame, color_mode, process, exit_code, presented, call,
                   tick_steps, users, replaced>>

\* alive_neighbors(&grid, x, y) at every cell: its results and its reads.
LifeNeighbors ==
    /\ pc = "life"
    /\ call' = [op |-> "alive_neighbors",
                counts |-> [y \in 0..(LifeRows - 1) |-> [x \in 0..(LifeCols - 1) |->
                               alive_neighbors(grid, x, y)]],
                reads |-> [y \in 0..(LifeRows - 1) |-> [x \in 0..(LifeCols - 1) |->
                               NeighborReads(grid, x, y)]]]
    /\ pc' = "life_counted"
    /\ UNCHANGED <<grid, frame, next_grid, alive_count, color_mode, process,
                   exit_code, presented, tick_steps, users, replaced>>

NextLife == LifeTick \/ LifeTickAgain

SpecLife == InitLife /\ [][NextLife]_vars

NextNeighbors == LifeNeighbors

SpecNeighbors == InitLife /\ [][NextNeighbors]_vars

\* --------------------------------------------- fill_rect applied on its own

FillColors == {BLACK, WHITE, <<17, 34, 51>>}

\* A frame whose bytes differ from every byte FillColors can store.
Patterned(w, h) == [i \in 0..(w * h * 4 - 1) |-> 100 + (i % 7)]

\* A buffer of FillWidth x FillHeight pixels, zeroed or patterned.
InitFill ==
    /\ grid = EmptyGrid(LifeCols, LifeRows)
    /\ frame \in {NewFrame(FillWidth, FillHeight), Patterned(FillWidth, FillHeight)}
    /\ next_grid = EmptyGrid(LifeCols, LifeRows)
    /\ alive_count = 0
    /\ color_mode = "monochrome"
    /\ pc = "fill"
    /\ process = "running"
    /\ exit_code = -1
    /\ presented = 0
    /\ call = NoCall
    /\ tick_steps = <<>>
    /\ users = NoUsers
    /\ replaced = 0

\* fill_rect(frame, FillWidth, origin, w, h, rgb) for a rectangle that may
\* or may not lie within the buffer.
FillRect ==
    /\ pc = "fill"
    /\ \E cx \in 0..FillWidth, cy \in 0..FillHeight,
          w \in 0..(FillWidth + 1), h \in 0..(FillHeight + 1), rgb \in FillColors :
            /\ frame' = fill_rect(frame, FillWidth, cx, cy, w, h, rgb)
            /\ call' = [op |-> "fill_rect", before |-> frame, x |-> cx, y |-> cy,
                        w |-> w, h |-> h, rgb |-> rgb,
                        panicked |-> FillRectPanics(frame, FillWidth, cx, cy, w, h)]
    /\ pc' = "filled"
    /\ UNCHANGED <<grid, next_grid, alive_count, color_mode, process,
                   exit_code, presented, tick_steps, users, replaced>>

NextFill == FillRect

SpecFill == InitFill /\ [][NextFill]_vars

\* --------------------------------------------- fill_cell applied on its own

\* The window's buffer, zeroed or patterned, and no cell filled yet.
InitCell ==
    /\ grid = EmptyGrid(grid_width, grid_height)
    /\ frame \in {NewFrame(pixel_buffer_width, pixel_buffer_height),
                  Patterned(pixel_buffer_width, pixel_buffer_height)}
    /\ next_grid = EmptyGrid(grid_width, grid_height)
    /\ alive_count = 0
    /\ color_mode = "monochrome"
    /\ pc = "cell"
    /\ process = "running"
    /\ exit_code = -1
    /\ presented = 0
    /\ call = [op |-> "fill_cell", fills |-> <<>>]
    /\ tick_steps = <<>>
    /\ users = NoUsers
    /\ replaced = 0

\* fill_cell(frame, pixel_buffer_width, GridCoords { x, y }, rgb) for a cell
\* of the grid, as the draw loop calls it; a first and a second time.
FillCell ==
    /\ pc \in {"cell", "cell_once"}
    /\ \E x \in 0..(grid_width - 1), y \in 0..(grid_height - 1), rgb \in FillColors :
            /\ frame' = fill_cell(frame, pixel_buffer_width, x, y, rgb)
            /\ call' = [call EXCEPT !.fills = Append(@,
                    [x |-> x, y |-> y, rgb |-> rgb,
                     written |-> FillCellIdx(frame, pixel_buffer_width, x, y),
                     panicked |-> FillCellPanics(frame, pixel_buffer_width, x, y)])]
    /\ pc' = IF pc = "cell" THEN "cell_once" ELSE "cell_twice"
    /\ UNCHANGED <<grid, next_grid, alive_count, color_mode, process,
                   exit_code, presented, tick_steps, users, replaced>>

NextCell == FillCell

SpecCell == InitCell /\ [][NextCell]_vars

\* ------------------------------- random_configuration applied on its own

\* args.alive_random_chance, in percent: never, sometimes, always.
Chances == {0, 25, 100}

\* rng.gen_bool(chance): what it can return.
gen_bool(chance) ==
    IF chance = 0 THEN {FALSE}
    ELSE IF chance = 100 THEN {TRUE}
    ELSE BOOLEAN

\* A faulty variant of Configured: the draw is assigned to the cell.
Configured_Assigned(cell, draw) == draw

\* if rng.gen_bool(chance) { *c = true; }: the cell after a draw.
Configured(cell, draw) == IF draw THEN TRUE ELSE cell

\* random_configuration(grid, chance) when the draws of its loops are
\* `draws`, one for every cell of every row.
random_configuration(g, draws) ==
    [y \in DOMAIN g |-> [x \in DOMAIN g[y] |-> Configured(g[y][x], draws[y][x])]]

\* A grid of RandCols x RandRows cells in any configuration.
InitRandom ==
    /\ grid \in AllGrids(RandCols, RandRows)
    /\ frame = <<>>
    /\ next_grid = EmptyGrid(RandCols, RandRows)
    /\ alive_count = 0
    /\ color_mode = "monochrome"
    /\ pc = "random"
    /\ process = "running"
    /\ exit_code = -1
    /\ presented = 0
    /\ call = NoCall
    /\ tick_steps = <<>>
    /\ users = NoUsers
    /\ replaced = 0

\* random_configuration(&mut grid, chance) for a chance and every outcome
\* of the draws that chance allows.
RandomConfiguration ==
    /\ pc = "random"
    /\ \E chance \in Chances :
        \E draws \in [DOMAIN grid -> [DOMAIN grid[0] -> gen_bool(chance)]] :
            /\ grid' = random_configuration(grid, draws)
            /\ call' = [op |-> "random_configuration", before |-> grid,
                        chance |-> chance]
    /\ pc' = "configured"
    /\ UNCHANGED <<frame, next_grid, alive_count, color_mode, process,
                   exit_code, presented, tick_steps, users, replaced>>

NextRandom == RandomConfiguration

SpecRandom == InitRandom /\ [][NextRandom]_vars

\* ================================================================== claims

\* The live cells among the eight Moore neighbours of <<x, y>> that lie in
\* the grid, counted from the grid alone.
MooreCount(g, x, y) ==
    Cardinality({q \in ((x - 1)..(x + 1)) \X ((y - 1)..(y + 1)) :
        /\ q # <<x, y>>
        /\ q[2] \in DOMAIN g
        /\ q[1] \in DOMAIN g[q[2]]
        /\ g[q[2]][q[1]]})

LifeCells == (0..(LifeCols - 1)) \X (0..(LifeRows - 1))

GridCells == (0..(grid_width - 1)) \X (0..(grid_height - 1))

\* C1: when the tick has computed the next generation, a cell is alive in
\* it if and only if it is alive with exactly 2 or 3 live neighbours or dead
\* with exactly 3; alive with at most 1 or at least 4, or dead with a count
\* other than 3, it is dead; an all-dead grid yields an all-dead grid.
C1_NextGenerationRule ==
    pc = "check" =>
        /\ \A p \in GridCells :
            LET a == grid[p[2]][p[1]]
                n == MooreCount(grid, p[1], p[2])
                b == next_grid[p[2]][p[1]]
            IN  /\ b <=> ((a /\ n \in {2, 3}) \/ (~a /\ n = 3))
                /\ (a /\ (n <= 1 \/ n >= 4)) => ~b
                /\ (~a /\ n # 3) => ~b
        /\ LiveCells(grid) = {} => LiveCells(next_grid) = {}

\* C1: a generation has been computed in which a live cell with 4 or more
\* live neighbours dies, a live cell with 2 survives and a dead cell with 3
\* is born.
C1_Witness ==
    /\ pc = "check"
    /\ \E p \in GridCells :
        grid[p[2]][p[1]] /\ MooreCount(grid, p[1], p[2]) >= 4 /\ ~next_grid[p[2]][p[1]]
    /\ \E p \in GridCells :
        grid[p[2]][p[1]] /\ MooreCount(grid, p[1], p[2]) = 2 /\ next_grid[p[2]][p[1]]
    /\ \E p \in GridCells :
        ~grid[p[2]][p[1]] /\ MooreCount(grid, p[1], p[2]) = 3 /\ next_grid[p[2]][p[1]]

\* C2 as stated: started on a grid with exactly one live cell, the loop has
\* presented exactly one frame when it exits (it exits in the first tick).
C2_ExitsInFirstTick ==
    process = "exited" => presented = 1

\* C2 as amended: started on a grid with exactly one live cell, the first
\* tick tests an alive count of 1 and goes on; the loop exits only with
\* code 0, after exactly two frames, the second one of an all-dead grid; and
\* it does exit unless a presentation fails.
C2_ExitsInSecondTick ==
    /\ [](pc = "check" /\ presented = 1 => alive_count = 1)
    /\ [](process = "exited" =>
            presented = 2 /\ exit_code = 0 /\ LiveCells(grid) = {})
    /\ <>(process = "exited" \/ pc = "panicked")

\* C2: the loop started on one live cell has exited with two frames
\* presented.
C2_Witness ==
    process = "exited" /\ presented = 2 /\ exit_code = 0

\* The steps C3 allows: the alive count tested is that of the grid just presented,
\* before
\* the transition: from the presentation to the test the grid does not
\* change, the test exits with code 0 if and only if that grid has no live
\* cell, nothing else exits, and otherwise the grid is replaced by the next
\* generation and the loop goes on.
C3_Step ==
    /\ pc \in {"render", "tick", "check"} => grid' = grid
    /\ (pc = "tick" /\ pc' = "check") =>
            alive_count' = Cardinality(LiveCells(grid))
    /\ pc = "check" =>
        /\ alive_count = Cardinality(LiveCells(grid))
        /\ IF LiveCells(grid) = {}
           THEN process' = "exited" /\ exit_code' = 0
           ELSE process' = "running" /\ pc' = "replace"
    /\ (process = "running" /\ process' = "exited") =>
            pc = "check" /\ LiveCells(grid) = {}
    /\ pc = "replace" =>
            grid' = next_grid /\ pc' = "sleep" /\ process' = "running"

\* C3: every step of the program is a step as C3_Step describes: the loop
\* exits with code 0 in a tick if and only if the grid presented in that
\* tick has no live cell, and otherwise replaces the grid and goes on.
C3_ExitIffPresentedGridExtinct == [][C3_Step]_vars

\* C3: a test at which the presented grid has live cells and the next
\* generation has none.
C3_Witness ==
    /\ pc = "check"
    /\ alive_count > 0
    /\ LiveCells(grid) # {}
    /\ LiveCells(next_grid) = {}

\* C4: alive_neighbors returns the number of live cells among the Moore
\* neighbours that lie in the grid (positions outside count as dead, the
\* cell itself is not counted), a number in 0..8.
C4_AliveNeighborsIsMooreCount ==
    (pc = "life_counted" /\ call.op = "alive_neighbors") =>
        \A p \in LifeCells :
            /\ call.counts[p[2]][p[1]] = MooreCount(grid, p[1], p[2])
            /\ call.counts[p[2]][p[1]] \in 0..8

\* C4: alive_neighbors has returned 8 for a cell that is itself alive, and
\* less than its live Moore neighbours would be with wraparound for a
\* corner.
C4_Witness ==
    /\ pc = "life_counted"
    /\ \E p \in LifeCells : grid[p[2]][p[1]] /\ call.counts[p[2]][p[1]] = 8
    /\ grid[0][0] /\ call.counts[0][0] = 3

OnLeftOrRight(p) == p[1] \in {0, LifeCols - 1}
OnTopOrBottom(p) == p[2] \in {0, LifeRows - 1}

\* C5: alive_neighbors reads the grid only at positions inside it (no read
\* panics); at most 3 positions for a corner cell and at most 5 for
\* another edge cell.
C5_AliveNeighborsReadsInGrid ==
    (pc = "life_counted" /\ call.op = "alive_neighbors") =>
        \A p \in LifeCells :
            LET reads == call.reads[p[2]][p[1]]
            IN  /\ reads \subseteq LifeCells
                /\ call.counts[p[2]][p[1]] >= 0
                /\ (OnLeftOrRight(p) /\ OnTopOrBottom(p)) => Cardinality(reads) <= 3
                /\ (OnLeftOrRight(p) \/ OnTopOrBottom(p)) => Cardinality(reads) <= 5

\* C5: alive_neighbors has read exactly 3 positions at the corner (0,0),
\* exactly 5 at an edge cell and 8 at an inner cell.
C5_Witness ==
    /\ pc = "life_counted"
    /\ Cardinality(call.reads[0][0]) = 3
    /\ Cardinality(call.reads[0][1]) = 5
    /\ Cardinality(call.reads[1][1]) = 8

\* The next generation as a function of the current grid alone.
PureNext(g) ==
    [y \in DOMAIN g |-> [x \in DOMAIN g[y] |->
        LifeRule(g[y][x], alive_neighbors(g, x, y))]]

\* The steps C6 allows: computing the next generation leaves
\* the grid as it is and gives every cell the value that the current grid
\* alone determines; the grid changes only by being replaced by that
\* completed next generation.
C6_Step ==
    /\ (pc = "tick" /\ pc' = "check") =>
            grid' = grid /\ next_grid' = PureNext(grid)
    /\ grid' # grid =>
            pc = "replace" /\ next_grid = PureNext(grid) /\ grid' = next_grid

\* C6: every step of the program is a step as C6_Step describes: the
\* transition is simultaneous and the grid changes only by replacement.
C6_TransitionIsSimultaneous == [][C6_Step]_vars

\* C6: the grid has been replaced by a next generation that has live
\* cells.
C6_Witness ==
    /\ pc = "sleep"
    /\ presented = 1
    /\ LiveCells(grid) # {}
    /\ \E p \in LiveCells(grid) : MooreCount(grid, p[1], p[2]) = 2

\* Three live cells in a row or in a column, the middle one at <<cx, cy>>.
HBlinker(cx, cy) == {<<cx - 1, cy>>, <<cx, cy>>, <<cx + 1, cy>>}
VBlinker(cx, cy) == {<<cx, cy - 1>>, <<cx, cy>>, <<cx, cy + 1>>}

IsBlinker(g) ==
    /\ Cardinality(LiveCells(g)) = 3
    /\ \E c \in LifeCells :
          \/ HBlinker(c[1], c[2]) \subseteq LifeCells /\ LiveCells(g) = HBlinker(c[1], c[2])
          \/ VBlinker(c[1], c[2]) \subseteq LifeCells /\ LiveCells(g) = VBlinker(c[1], c[2])

\* A blinker with the whole 3 x 3 square around its middle cell in the grid.
IsInnerBlinker(g) ==
    /\ Cardinality(LiveCells(g)) = 3
    /\ \E c \in LifeCells :
          /\ HBlinker(c[1], c[2]) \cup VBlinker(c[1], c[2]) \subseteq LifeCells
          /\ LiveCells(g) \in {HBlinker(c[1], c[2]), VBlinker(c[1], c[2])}

\* C7 as stated: for a blinker at any position of the grid, two transitions
\* give the original grid back.
C7_AnyBlinkerHasPeriodTwo ==
    (pc = "life_twice" /\ IsBlinker(grid)) => next_grid = grid

\* C7 as amended: for a blinker whose middle cell has its whole 3 x 3
\* neighbourhood inside the grid, two transitions give the original grid
\* back (and one transition does not).
C7_InnerBlinkerHasPeriodTwo ==
    /\ (pc = "life_twice" /\ IsInnerBlinker(grid)) => next_grid = grid
    /\ (pc = "life_once" /\ IsInnerBlinker(grid)) =>
            next_grid # grid /\ IsInnerBlinker(next_grid)

\* C7: two transitions have been applied to an inner blinker.
C7_Witness ==
    pc = "life_twice" /\ IsInnerBlinker(grid) /\ next_grid = grid

\* The four bytes of pixel <<px, py>> of a frame bw pixels wide.
PixelBytes(fr, bw, px, py) ==
    [k \in 0..3 |-> fr[(py * bw + px) * 4 + k]]

Rgba(rgb) == [k \in 0..3 |-> IF k = 3 THEN 255 ELSE rgb[k + 1]]

FillPixels == (0..(FillWidth - 1)) \X (0..(FillHeight - 1))

InFillRect(p) ==
    /\ call.x <= p[1] /\ p[1] < call.x + call.w
    /\ call.y <= p[2] /\ p[2] < call.y + call.h

\* C8: for a rectangle within the buffer, fill_rect stores to exactly the
\* w * h pixels of the rectangle, each becoming (r, g, b, 255) at byte
\* offset (y * buffer_width + x) * 4, and every byte of every other pixel
\* is as before.
C8_FillRectWritesExactlyTheRect ==
    (/\ pc = "filled"
     /\ call.op = "fill_rect"
     /\ call.x + call.w <= FillWidth
     /\ call.y + call.h <= FillHeight) =>
        /\ ~call.panicked
        /\ DOMAIN frame = DOMAIN call.before
        /\ Cardinality(FillRectDone(call.before, FillWidth,
                                    call.x, call.y, call.w, call.h)) = call.w * call.h
        /\ Cardinality({p \in FillPixels : InFillRect(p)}) = call.w * call.h
        /\ \A p \in FillPixels :
            PixelBytes(frame, FillWidth, p[1], p[2]) =
                IF InFillRect(p) THEN Rgba(call.rgb)
                ELSE PixelBytes(call.before, FillWidth, p[1], p[2])

\* C8: fill_rect has filled a 2 x 2 rectangle that ends at the buffer's
\* right and bottom edges, in a buffer whose bytes were all different from
\* the colour's.
C8_Witness ==
    /\ pc = "filled"
    /\ call.op = "fill_rect"
    /\ call.w = 2 /\ call.h = 2
    /\ call.x + call.w = FillWidth /\ call.y + call.h = FillHeight
    /\ call.before = Patterned(FillWidth, FillHeight)
    /\ frame # call.before

\* C9 as stated: when pixels.render fails, the process is aborted (it is no
\* longer running, and it did not end with code 0).
C9_RenderFailureAbortsProcess ==
    pc = "panicked" => (process # "running" /\ exit_code # 0)

CellOffsets == (0..(PIXELS_PER_CELL - 1)) \X (0..(PIXELS_PER_CELL - 1))

\* C10: in monochrome mode, when a frame is presented, every pixel of every
\* cell's rectangle at (x * PIXELS_PER_CELL, y * PIXELS_PER_CELL) is
\* (255,255,255,255) if the cell is alive and (0,0,0,255) if it is dead.
C10_FrameShowsGrid ==
    (color_mode = "monochrome" /\ pc = "render") =>
        \A c \in GridCells, d \in CellOffsets :
            PixelBytes(frame, pixel_buffer_width,
                       c[1] * PIXELS_PER_CELL + d[1],
                       c[2] * PIXELS_PER_CELL + d[2]) =
                IF grid[c[2]][c[1]] THEN Rgba(WHITE) ELSE Rgba(BLACK)

\* C10: a second frame is about to be presented in monochrome mode, drawn
\* into the buffer that held the first, of a grid with live and dead cells.
C10_Witness ==
    /\ color_mode = "monochrome"
    /\ pc = "render"
    /\ presented = 1
    /\ LiveCells(grid) # {}
    /\ LiveCells(grid) # GridCells
    /\ Cardinality(LiveCells(grid)) < 3

\* The statements of one tick in the order the claim gives them, with the
\* acquisition of the buffer before them and the computation of the next
\* generation between the presentation and the check.
TickOrder ==
    <<"frame_mut", "clear", "draw", "render", "tick", "check", "replace", "sleep">>

IsPrefix(s, t) == Len(s) <= Len(t) /\ s = SubSeq(t, 1, Len(s))

Ran(step) == \E i \in 1..Len(tick_steps) : tick_steps[i] = step

\* The effect of each step is the effect of the statement recorded for it:
\* the buffer changes only in the clear and the draw, a frame is presented
\* only by the render, the grid changes only in the replace, after the
\* render and the check of the same tick.
C11_Step ==
    /\ frame' # frame =>
            tick_steps' \in {Append(tick_steps, "clear"), Append(tick_steps, "draw")}
    /\ presented' # presented => tick_steps' = Append(tick_steps, "render")
    /\ grid' # grid =>
            /\ tick_steps' = Append(tick_steps, "replace")
            /\ Ran("render") /\ Ran("check")
    /\ process' # process => tick_steps' = Append(tick_steps, "check")

\* C11: within every tick the statements run in the order clear, draw,
\* present, check, replace, sleep, each at most once; the grid is never
\* replaced before the frame of its generation is presented; a tick that
\* does not terminate sleeps exactly once before the next tick starts.
C11_TickOrder ==
    /\ [](IsPrefix(tick_steps, TickOrder))
    /\ [](pc = "frame_mut" => tick_steps \in {<<>>, TickOrder})
    /\ [][C11_Step]_vars

\* C11: a second tick is under way, after a whole first tick that replaced
\* the grid and slept.
C11_Witness ==
    /\ pc = "tick"
    /\ presented = 2
    /\ replaced = 1
    /\ tick_steps = SubSeq(TickOrder, 1, 4)

\* After the exit nothing of the program changes.
C12_Step ==
    process = "exited" =>
        /\ process' = "exited"
        /\ pc' = pc
        /\ grid' = grid
        /\ frame' = frame
        /\ presented' = presented
        /\ users' = users
        /\ tick_steps' = tick_steps

\* C12: Terminated is absorbing: once the loop has exited, no buffer is
\* acquired, no frame is presented, the grid does not change and the loop
\* never runs again.
C12_TerminatedIsAbsorbing ==
    /\ [](process = "exited" => pc = "exit")
    /\ [][C12_Step]_vars

\* C12: the loop has exited after it replaced the grid at least once.
C12_Witness ==
    process = "exited" /\ pc = "exit" /\ replaced >= 1

\* C13: the process ends only through the extinction exit: while the
\* current generation has a live cell the process is running and no step,
\* of the worker or of the foreground, ends it; a process that has ended
\* has ended with code 0 at the check of a grid without live cells.
C13_OnlyExtinctionEndsProcess ==
    /\ [](LiveCells(grid) # {} => process = "running")
    /\ [](process = "exited" => exit_code = 0 /\ Ran("check") /\ alive_count = 0)
    /\ [][LiveCells(grid) # {} => process' = "running"]_vars

\* C13: the simulation runs on with live cells after MaxFrames grids.
C13_Witness ==
    /\ process = "running"
    /\ pc = "sleep"
    /\ replaced = MaxFrames
    /\ LiveCells(grid) # {}

\* C14: only the worker accesses the grid and the buffer: the foreground
\* never does, and neither has ever two users.
C14_WorkerOwnsGridAndBuffer ==
    /\ users.grid \subseteq {"worker"}
    /\ users.frame \subseteq {"worker"}
    /\ "foreground" \notin users.grid \cup users.frame
    /\ Cardinality(users.grid) <= 1 /\ Cardinality(users.frame) <= 1

\* C14: the worker has accessed the grid and the buffer through a whole
\* tick while the foreground loop was running.
C14_Witness ==
    /\ users.grid = {"worker"}
    /\ users.frame = {"worker"}
    /\ process = "running"
    /\ pc = "frame_mut"
    /\ replaced >= 1

\* C15: the grid has grid_height rows of grid_width columns each, both
\* positive and PIXELS_PER_CELL times them the buffer's width and height,
\* at the start of every tick and after every replacement.
C15_GridDimensions ==
    /\ grid_width > 0 /\ grid_height > 0
    /\ grid_width * PIXELS_PER_CELL = pixel_buffer_width
    /\ grid_height * PIXELS_PER_CELL = pixel_buffer_height
    /\ pc \in {"frame_mut", "sleep"} =>
        /\ DOMAIN grid = 0..(grid_height - 1)
        /\ \A y \in DOMAIN grid : DOMAIN grid[y] = 0..(grid_width - 1)
        /\ Cardinality(DOMAIN frame) =
                (grid_width * PIXELS_PER_CELL) * (grid_height * PIXELS_PER_CELL) * 4

\* C15: a tick starts on a grid that a replacement has put in place.
C15_Witness ==
    /\ pc = "frame_mut"
    /\ replaced >= 1
    /\ LiveCells(grid) # {}
    /\ DOMAIN grid = 0..(grid_height - 1)

RandCells == (0..(RandCols - 1)) \X (0..(RandRows - 1))

\* C16: random_configuration only turns cells alive: every cell alive
\* before is alive after, every cell is alive or as it was, the dimensions
\* are unchanged; chance 0 leaves the grid as it was and chance 1 leaves
\* every cell alive.
C16_RandomConfigurationOnlyTurnsAlive ==
    (pc = "configured" /\ call.op = "random_configuration") =>
        /\ DOMAIN grid = DOMAIN call.before
        /\ \A y \in DOMAIN grid : DOMAIN grid[y] = DOMAIN call.before[y]
        /\ \A p \in RandCells :
            /\ call.before[p[2]][p[1]] => grid[p[2]][p[1]]
            /\ grid[p[2]][p[1]] \in {TRUE, call.before[p[2]][p[1]]}
        /\ call.chance = 0 => grid = call.before
        /\ call.chance = 100 => LiveCells(grid) = RandCells

\* C16: with a chance strictly between 0 and 1, random_configuration has
\* left alive a cell that was alive, turned a dead cell alive and left a
\* dead cell dead.
C16_Witness ==
    /\ pc = "configured"
    /\ call.chance \notin {0, 100}
    /\ \E p \in RandCells : call.before[p[2]][p[1]] /\ grid[p[2]][p[1]]
    /\ \E p \in RandCells : ~call.before[p[2]][p[1]] /\ grid[p[2]][p[1]]
    /\ \E p \in RandCells : ~call.before[p[2]][p[1]] /\ ~grid[p[2]][p[1]]

\* Every pixel of the frame is (0, 0, 0, 255).
AllBlack(fr) == \A i \in DOMAIN fr : fr[i] = IF i % 4 = 3 THEN 255 ELSE 0

\* C17: when the loop exits, on the first generation k without a live cell,
\* it has presented exactly k + 1 frames and replaced the grid exactly k
\* times, it exits with code 0, and the last frame presented is black all
\* over; an all-dead initial grid is presented once and exits in the first
\* tick.
C17_FramesUntilExtinction ==
    /\ [](process = "exited" =>
            /\ exit_code = 0
            /\ LiveCells(grid) = {}
            /\ presented >= 1
            /\ presented < MaxFrames => replaced = presented - 1
            /\ replaced < MaxFrames => presented = Saturate(replaced + 1)
            /\ AllBlack(frame))
    /\ [](pc = "replace" => LiveCells(grid) # {})
    /\ [](replaced <= presented)
    /\ []((replaced = 0 /\ pc = "check" /\ LiveCells(grid) = {}) => presented = 1)
    /\ [][(pc = "check" /\ LiveCells(grid) = {}) =>
            (process' = "exited" /\ presented' = presented /\ replaced' = replaced)]_vars

\* C17: the loop has exited on generation 1 in random colour mode, after
\* two frames and one replacement, the buffer black all over.
C17_Witness ==
    /\ process = "exited"
    /\ color_mode = "random"
    /\ replaced = 1
    /\ presented = 2
    /\ AllBlack(frame)

\* The frame that shows a grid in monochrome, pixel by pixel.
ShownFrame(g) ==
    [i \in 0..(pixel_buffer_width * pixel_buffer_height * 4 - 1) |->
        LET px == (i \div 4) % pixel_buffer_width
            py == (i \div 4) \div pixel_buffer_width
        IN  IF i % 4 = 3 \/ g[py \div PIXELS_PER_CELL][px \div PIXELS_PER_CELL]
            THEN 255 ELSE 0]

IsBlock(g) ==
    \E c \in GridCells : Block(c[1], c[2]) \subseteq GridCells /\ LiveCells(g) = Block(c[1], c[2])

\* C18: started on a single 2 x 2 block, the loop never exits: the grid
\* never changes, every generation computed equals it, the alive count
\* tested is 4 every time, every frame presented in monochrome mode is the
\* same picture of the block, and the loop goes on presenting for ever
\* (unless a presentation fails).
C18_BlockRunsForever ==
    /\ [](process = "running" /\ pc # "exit" /\ IsBlock(grid))
    /\ [][grid' = grid]_vars
    /\ [](pc = "check" => (alive_count = 4 /\ next_grid = grid))
    /\ []((pc = "tick" /\ color_mode = "monochrome") => frame = ShownFrame(grid))
    /\ ([]<>(pc = "render") \/ <>[](pc = "panicked"))

\* C18: the block is about to be presented again after MaxFrames frames and
\* as many replacements.
C18_Witness ==
    /\ pc = "render"
    /\ color_mode = "monochrome"
    /\ presented = MaxFrames
    /\ replaced = MaxFrames
    /\ IsBlock(grid)
    /\ frame = ShownFrame(grid)

\* The byte indices fill_cell stores to for the cell c of the grid.
CellIdx(c) == FillCellIdx(frame, pixel_buffer_width, c[1], c[2])

\* C19: for every cell of the grid fill_cell stores only inside the buffer
\* (no store panics), the pixels of two distinct cells are disjoint, so
\* that filling a cell leaves the pixels of a cell filled before as they
\* were, and the pixels of all cells together are the whole buffer.
C19_CellRectanglesTileBuffer ==
    (call.op = "fill_cell" /\ pc \in {"cell_once", "cell_twice"}) =>
        /\ \A i \in 1..Len(call.fills) :
            /\ ~call.fills[i].panicked
            /\ call.fills[i].written \subseteq DOMAIN frame
            /\ \A k \in call.fills[i].written :
                    k < pixel_buffer_width * pixel_buffer_height * 4
            /\ Cardinality(call.fills[i].written) =
                    PIXELS_PER_CELL * PIXELS_PER_CELL * 4
        /\ \A c \in GridCells : CellIdx(c) \subseteq DOMAIN frame
        /\ \A c, d \in GridCells : c # d => CellIdx(c) \cap CellIdx(d) = {}
        /\ UNION {CellIdx(c) : c \in GridCells} = DOMAIN frame
        /\ (/\ pc = "cell_twice"
            /\ <<call.fills[1].x, call.fills[1].y>> # <<call.fills[2].x, call.fills[2].y>>) =>
                /\ call.fills[1].written \cap call.fills[2].written = {}
                /\ \A k \in call.fills[1].written :
                        frame[k] = ChannelByte(call.fills[1].rgb, k % 4)

\* C19: two neighbouring cells, the second the last cell of the grid, have
\* been filled with different colours.
C19_Witness ==
    /\ pc = "cell_twice"
    /\ call.fills[2].x = grid_width - 1 /\ call.fills[2].y = grid_height - 1
    /\ call.fills[1].x = grid_width - 2 /\ call.fills[1].y = grid_height - 1
    /\ call.fills[1].rgb # call.fills[2].rgb

====
